---- MODULE Spec2Model ----
(***************************************************************************)
(* Model of app.py: the watchlist screening dashboard.                     *)
(*                                                                         *)
(* Floating-point values are modelled as exact rationals extended with     *)
(* NaN and signed infinity (numpy float64 semantics for /0 and NaN         *)
(* comparisons); rounding error of binary floating point is not modelled.  *)
(***************************************************************************)
EXTENDS Integers, Sequences, FiniteSets, TLC

\* ------------------------------------------------------------------------
\* numpy float64 values: [k |-> "num", n, d] is n/d in lowest terms (d > 0),
\* [k |-> "inf", n |-> +1/-1], [k |-> "nan"].
\* ------------------------------------------------------------------------
RECURSIVE GCD(_, _)
GCD(a, b) == IF b = 0 THEN a ELSE GCD(b, a % b)

Abs(x) == IF x < 0 THEN -x ELSE x

Num(n, d) ==
    LET g == GCD(Abs(n), d)
    IN  [k |-> "num", n |-> n \div g, d |-> d \div g]

NaN == [k |-> "nan", n |-> 0, d |-> 1]

InfS(s) == [k |-> "inf", n |-> s, d |-> 1]

Zero == Num(0, 1)

Sign(x) == IF x.n > 0 THEN 1 ELSE IF x.n < 0 THEN -1 ELSE 0

IsNaN(x) == x.k = "nan"

IsNum(x) == x.k = "num"

\* The arithmetic is written on values (the ...V operators); each operator
\* proper binds its arguments first, so that an argument which is itself a
\* long expression is evaluated once and not at every use.
FNegV(a) == IF IsNaN(a) THEN NaN ELSE [a EXCEPT !.n = -a.n]

FNeg(a) == CHOOSE r \in {FNegV(x) : x \in {a}} : TRUE

FAddV(a, b) ==
    IF IsNaN(a) \/ IsNaN(b) THEN NaN
    ELSE IF a.k = "inf" /\ b.k = "inf" THEN (IF a.n = b.n THEN a ELSE NaN)
    ELSE IF a.k = "inf" THEN a
    ELSE IF b.k = "inf" THEN b
    ELSE Num(a.n * b.d + b.n * a.d, a.d * b.d)

FAdd(a, b) == CHOOSE r \in {FAddV(x, y) : x \in {a}, y \in {b}} : TRUE

FSub(a, b) == FAdd(a, FNeg(b))

FMulV(a, b) ==
    IF IsNaN(a) \/ IsNaN(b) THEN NaN
    ELSE IF a.k = "inf" \/ b.k = "inf"
         THEN (IF Sign(a) * Sign(b) = 0 THEN NaN ELSE InfS(Sign(a) * Sign(b)))
    ELSE Num(a.n * b.n, a.d * b.d)

FMul(a, b) == CHOOSE r \in {FMulV(x, y) : x \in {a}, y \in {b}} : TRUE

\* x / 0 is +-inf and 0 / 0 is NaN (a RuntimeWarning, not an exception).
FDivV(a, b) ==
    IF IsNaN(a) \/ IsNaN(b) THEN NaN
    ELSE IF a.k = "inf" /\ b.k = "inf" THEN NaN
    ELSE IF a.k = "inf" THEN InfS(IF b.n < 0 THEN -a.n ELSE a.n)
    ELSE IF b.k = "inf" THEN Zero
    ELSE IF b.n = 0 THEN (IF a.n = 0 THEN NaN ELSE InfS(Sign(a)))
    ELSE IF b.n > 0 THEN Num(a.n * b.d, a.d * b.n)
    ELSE Num(-(a.n * b.d), a.d * (-b.n))

FDiv(a, b) == CHOOSE r \in {FDivV(x, y) : x \in {a}, y \in {b}} : TRUE

\* Every comparison with NaN is False.
FLtV(a, b) ==
    IF IsNaN(a) \/ IsNaN(b) THEN FALSE
    ELSE IF a.k = "inf" THEN a.n = -1 /\ ~(b.k = "inf" /\ b.n = -1)
    ELSE IF b.k = "inf" THEN b.n = 1
    ELSE a.n * b.d < b.n * a.d

FLt(a, b) == CHOOSE r \in {FLtV(x, y) : x \in {a}, y \in {b}} : TRUE

FGt(a, b) == FLt(b, a)

FGeV(a, b) == ~IsNaN(a) /\ ~IsNaN(b) /\ ~FLtV(a, b)

FGe(a, b) == CHOOSE r \in {FGeV(x, y) : x \in {a}, y \in {b}} : TRUE

FLe(a, b) == FGe(b, a)

\* Python int(x): truncation toward zero; raises on NaN (ValueError) and on
\* infinity (OverflowError).
IntRaises(x) == ~IsNum(x)

PyInt(x) == IF x.n >= 0 THEN x.n \div x.d ELSE -((-x.n) \div x.d)

Min(a, b) == IF a <= b THEN a ELSE b

\* ------------------------------------------------------------------------
\* Program constants and the sidebar configuration (lines 17-41)
\* ------------------------------------------------------------------------
TARGETS == <<"NVDA", "TSLA", "SPY">>

NumTargets == Len(TARGETS)

MinBars == 250

RSIWindow == 14

FallbackRate == Num(150, 1)

NoVal == [k |-> "none", n |-> 0, d |-> 1]

\* ------------------------------------------------------------------------
\* calculate_indicators, RSI column (lines 50-54).  closes is df['Close'],
\* a function 1..n -> price.
\* ------------------------------------------------------------------------
\* delta = df['Close'].diff(): NaN at the first bar.
Delta(closes, i) == IF i = 1 THEN NaN ELSE Num(closes[i] - closes[i - 1], 1)

\* delta.where(delta > 0, 0): NaN > 0 is False, so the first bar gives 0.
GainTerm(dl) == IF FGt(dl, Zero) THEN dl ELSE Zero

\* -delta.where(delta < 0, 0)
LossTerm(dl) == FNeg(IF FLt(dl, Zero) THEN dl ELSE Zero)

RECURSIVE SumGain(_, _, _)
SumGain(closes, lo, hi) ==
    IF lo > hi THEN Zero
    ELSE FAdd(GainTerm(Delta(closes, hi)), SumGain(closes, lo, hi - 1))

RECURSIVE SumLoss(_, _, _)
SumLoss(closes, lo, hi) ==
    IF lo > hi THEN Zero
    ELSE FAdd(LossTerm(Delta(closes, hi)), SumLoss(closes, lo, hi - 1))

\* .rolling(window=14).mean(): NaN until 14 observations are in the window.
AvgGain(closes, i) ==
    IF i < RSIWindow THEN NaN
    ELSE FDiv(SumGain(closes, i - RSIWindow + 1, i), Num(RSIWindow, 1))

AvgLoss(closes, i) ==
    IF i < RSIWindow THEN NaN
    ELSE FDiv(SumLoss(closes, i - RSIWindow + 1, i), Num(RSIWindow, 1))

\* rs = gain / loss
RS(closes, i) == FDiv(AvgGain(closes, i), AvgLoss(closes, i))

\* df['RSI'] = 100 - (100 / (1 + rs))
RSI(closes, i) ==
    FSub(Num(100, 1), FDiv(Num(100, 1), FAdd(Num(1, 1), RS(closes, i))))

RSIColumn(closes) == [i \in DOMAIN closes |-> RSI(closes, i)]

\* ------------------------------------------------------------------------
\* get_usd_jpy_rate (lines 63-69).  resp is the provider's answer:
\* status "raise" | "empty" | "ok", close the last Close of the frame.
\* ------------------------------------------------------------------------
\* Faulty variant: the data.empty test is left out.
get_usd_jpy_rate_NoEmptyCheck(resp) ==
    IF resp.status = "raise" THEN FallbackRate ELSE resp.close

get_usd_jpy_rate(resp) ==
    IF resp.status = "raise" THEN FallbackRate
    ELSE IF resp.status = "empty" THEN FallbackRate
    ELSE resp.close

\* ------------------------------------------------------------------------
\* Trend and opportunity classification (lines 100-118)
\* ------------------------------------------------------------------------
\* Faulty variant: >= instead of >.
IsBull_OrEqual(row) == FGe(row.Close, row.SMA_200)

IsBull(row) == FGt(row.Close, row.SMA_200)

DistToHighPct(row) ==
    FMul(FDiv(FSub(row.High_52W, row.Close), row.Close), Num(100, 1))

\* Faulty variant: the 1% tolerance is left out and the comparison is strict.
AtHighsTest_NoTolerance(row) == FGt(row.Close, row.High_52W)

AtHighsTest(row) == FGe(row.Close, FMul(row.High_52W, Num(99, 100)))

RoomTest(row) == FGe(DistToHighPct(row), Num(10, 1))

Opportunity(row) ==
    IF AtHighsTest(row) THEN "AtHighs"
    ELSE IF RoomTest(row) THEN "RoomAvailable"
    ELSE "NearResistance"

\* ------------------------------------------------------------------------
\* Position sizing (lines 120-129)
\* ------------------------------------------------------------------------
StopLoss(row, mult) == FSub(row.Close, FMul(mult, row.ATR))

RiskPerShareJpy(row, mult, fx) ==
    FMul(FSub(row.Close, StopLoss(row, mult)), fx)

AllowableRisk(cap, pct) == FMul(Num(cap, 1), pct)

RawShares(row, cap, pct, mult, fx) ==
    FDiv(AllowableRisk(cap, pct), RiskPerShareJpy(row, mult, fx))

MaxBuy(row, cap, fx) == FDiv(Num(cap, 1), FMul(row.Close, fx))

RiskPositive(row, mult, fx) == FGt(RiskPerShareJpy(row, mult, fx), Zero)

\* int() raises on a non-finite quotient; the outer except reports it.
SizingRaises(row, cap, pct, mult, fx) ==
    /\ RiskPositive(row, mult, fx)
    /\ \/ IntRaises(RawShares(row, cap, pct, mult, fx))
       \/ IntRaises(MaxBuy(row, cap, fx))

\* Faulty variant: the min() with max_buy is left out.
Shares_NoCapitalCap(row, cap, pct, mult, fx) ==
    IF RiskPositive(row, mult, fx)
    THEN PyInt(RawShares(row, cap, pct, mult, fx))
    ELSE 0

\* Faulty variant: the risk quotient is rounded up instead of truncated.
Shares_RoundUp(row, cap, pct, mult, fx) ==
    IF RiskPositive(row, mult, fx)
    THEN Min(PyInt(RawShares(row, cap, pct, mult, fx)) + 1, PyInt(MaxBuy(row, cap, fx)))
    ELSE 0

Shares(row, cap, pct, mult, fx) ==
    IF RiskPositive(row, mult, fx)
    THEN Min(PyInt(RawShares(row, cap, pct, mult, fx)), PyInt(MaxBuy(row, cap, fx)))
    ELSE 0

\* ------------------------------------------------------------------------
\* Commentary gating and failure classification (lines 140, 158-166).
\* err is the set of markers found in str(e).
\* ------------------------------------------------------------------------
\* Faulty variant: the client test is left out.
ShouldComment_NoClientCheck(cl, bull) == bull

ShouldComment(cl, bull) == cl /\ bull

ClassifyAiError(err) ==
    IF "429" \in err \/ "RESOURCE_EXHAUSTED" \in err THEN "rate-limited"
    ELSE IF "404" \in err THEN "not-found"
    ELSE "other"

\* Faulty variant: the guard uses the SMA window instead of the 250-bar window.
InsufficientData_SmaWindow(frame) == frame.len = 0 \/ frame.len < 200

\* df.empty or len(df) < 250 (line 93)
InsufficientData(frame) == frame.len = 0 \/ frame.len < MinBars

\* ------------------------------------------------------------------------
\* Input domains
\* ------------------------------------------------------------------------
MaxAtrHalves == 4

MaxHighSteps == 4

MaxBars == 15

NoRow == [Close |-> NoVal, SMA_200 |-> NoVal, High_52W |-> NoVal, ATR |-> NoVal]

NoFrame == [len |-> 0, row |-> NoRow]

NoResp == [status |-> "none", close |-> NoVal]

\* Sidebar values (lines 22-24): capital is unconstrained, the sliders give
\* 1%..10% and 1.0..3.0.
CalcCapitals == {-10000, 0, 10000, 200000}

CalcPcts == {Num(1, 100), Num(5, 100), Num(10, 100)}

CalcMults == {Num(1, 1), Num(2, 1), Num(3, 1)}

CalcRates == {FallbackRate, Num(155, 1), Num(2990, 20)}

CalcATRs == {Num(a, 2) : a \in 0..MaxAtrHalves} \cup {NaN}

CalcHighs == {Num(95 + 5 * h, 1) : h \in 0..MaxHighSteps} \cup {Num(101, 1), Num(102, 1)}

CalcRows ==
    [Close : {Num(100, 1), Num(45, 2)},
     SMA_200 : {Num(90, 1), Num(100, 1), Num(110, 1)},
     High_52W : CalcHighs,
     ATR : CalcATRs]

RunCapitals == {200000}

RunRows ==
    [Close : {Num(100, 1)},
     SMA_200 : {Num(90, 1), Num(100, 1)},
     High_52W : {Num(100, 1), Num(105, 1), Num(115, 1)},
     ATR : {Num(2, 1), NaN}]

FrameLens == {0, 100, MinBars - 1, MinBars, 500}

Frames == {NoFrame} \cup [len : FrameLens \ {0}, row : RunRows]

FxResponses ==
    {[status |-> "raise", close |-> NoVal], [status |-> "empty", close |-> NoVal],
     [status |-> "ok", close |-> Num(155, 1)]}

ErrMarkers == {"429", "RESOURCE_EXHAUSTED", "404"}

SeriesPrices == {10, 11}

Tickers == 1..NumTargets

\* What cols[idx] shows for a ticker (trend line, opportunity line, position
\* block, AI line, error box), with a record of what was done for it:
\* calculate_indicators invoked, the backoff waited, the rate given to the
\* sizer.
EmptyColumn ==
    [trend |-> "none", category |-> "none", position |-> "none", ai |-> "none",
     error |-> "none", indicators |-> FALSE, slept |-> FALSE, fx |-> NoVal]

\* ------------------------------------------------------------------------
\* State
\* ------------------------------------------------------------------------
VARIABLES
    INITIAL_CAPITAL_JPY, RISK_TOLERANCE_PCT, ATR_MULTIPLIER, client,
    pc, idx, usd_jpy, fxResponse, fxFetches,
    df, last, is_bull, shares, stop_loss, err_msg,
    column, terminal, aiCalls,
    closes, rsiCol

config == <<INITIAL_CAPITAL_JPY, RISK_TOLERANCE_PCT, ATR_MULTIPLIER, client>>

fxState == <<usd_jpy, fxResponse, fxFetches>>

locals == <<df, last, is_bull, shares, stop_loss, err_msg>>

series == <<closes, rsiCol>>

vars == <<config, pc, idx, fxState, locals, column, terminal, aiCalls, series>>

\* The loop variables are dead once an iteration ends; they are cleared so
\* that stale values do not multiply the states.
ResetLocals ==
    /\ df' = NoFrame
    /\ last' = NoRow
    /\ is_bull' = FALSE
    /\ shares' = 0
    /\ stop_loss' = NoVal
    /\ err_msg' = {}

\* The script starts over (Streamlit reruns it on every interaction).
ResetRun ==
    /\ idx' = 0
    /\ usd_jpy' = NoVal
    /\ fxResponse' = NoResp
    /\ fxFetches' = 0
    /\ column' = [t \in Tickers |-> EmptyColumn]
    /\ terminal' = [t \in Tickers |-> <<>>]
    /\ aiCalls' = [t \in Tickers |-> 0]
    /\ ResetLocals

Init ==
    /\ INITIAL_CAPITAL_JPY \in RunCapitals
    /\ RISK_TOLERANCE_PCT = Num(5, 100)
    /\ ATR_MULTIPLIER = Num(2, 1)
    /\ client \in BOOLEAN
    /\ pc = "idle"
    /\ idx = 0
    /\ usd_jpy = NoVal
    /\ fxResponse = NoResp
    /\ fxFetches = 0
    /\ df = NoFrame
    /\ last = NoRow
    /\ is_bull = FALSE
    /\ shares = 0
    /\ stop_loss = NoVal
    /\ err_msg = {}
    /\ column = [t \in Tickers |-> EmptyColumn]
    /\ terminal = [t \in Tickers |-> <<>>]
    /\ aiCalls = [t \in Tickers |-> 0]
    /\ closes = <<>>
    /\ rsiCol = <<>>

\* A sidebar widget changes (lines 18-24, 34-41): the script reruns with the
\* button unpressed.
Interact ==
    /\ pc \in {"idle", "done"}
    /\ pc' = "idle"
    /\ INITIAL_CAPITAL_JPY' \in RunCapitals
    /\ client' \in BOOLEAN
    /\ ResetRun
    /\ UNCHANGED <<RISK_TOLERANCE_PCT, ATR_MULTIPLIER, series>>

\* The button is pressed (line 77).
Click ==
    /\ pc \in {"idle", "done"}
    /\ pc' = "fx"
    /\ ResetRun
    /\ UNCHANGED <<config, series>>

\* usd_jpy = get_usd_jpy_rate() (line 79); the loop starts (line 84).
GetUsdJpyRate ==
    /\ pc = "fx"
    /\ \E resp \in FxResponses :
          /\ fxResponse' = resp
          /\ usd_jpy' = get_usd_jpy_rate(resp)
    /\ fxFetches' = fxFetches + 1
    /\ idx' = 1
    /\ pc' = "download"
    /\ UNCHANGED <<config, locals, column, terminal, aiCalls, series>>

\* The end of one iteration of the for loop, by fall-through, continue or
\* the except clause.
EndIteration(tag) ==
    /\ terminal' = [terminal EXCEPT ![idx] = Append(@, tag)]
    /\ idx' = idx + 1
    /\ pc' = IF idx = NumTargets THEN "done" ELSE "download"
    /\ ResetLocals

\* Faulty variant: no per-ticker try/except, the exception ends the script.
SystemError_Abort(col) ==
    /\ column' = [column EXCEPT ![idx] = [col EXCEPT !.error = "system"]]
    /\ terminal' = [terminal EXCEPT ![idx] = Append(@, "error")]
    /\ pc' = "aborted"
    /\ ResetLocals
    /\ UNCHANGED <<config, idx, fxState, aiCalls, series>>

\* except Exception as e: st.error(...) (lines 168-169)
SystemError(col) ==
    /\ column' = [column EXCEPT ![idx] = [col EXCEPT !.error = "system"]]
    /\ EndIteration("error")
    /\ UNCHANGED <<config, fxState, aiCalls, series>>

\* df = yf.download(...) (lines 88-91); flattening the column index does not
\* change the rows.
Download ==
    /\ pc = "download"
    /\ \/ /\ \E frame \in Frames : df' = frame
          /\ pc' = "guard"
          /\ UNCHANGED <<config, idx, fxState, last, is_bull, shares, stop_loss,
                         err_msg, column, terminal, aiCalls, series>>
       \/ SystemError(column[idx])

\* if df.empty or len(df) < 250: st.error; continue (lines 93-95)
LengthGuard ==
    /\ pc = "guard"
    /\ IF InsufficientData(df)
       THEN /\ column' = [column EXCEPT ![idx].error = "insufficient"]
            /\ EndIteration("insufficient")
            /\ UNCHANGED <<config, fxState, aiCalls, series>>
       ELSE /\ pc' = "indicators"
            /\ UNCHANGED <<config, idx, fxState, locals, column, terminal,
                           aiCalls, series>>

\* df = calculate_indicators(df); last = df.iloc[-1]; is_bull; the header,
\* the metric and the trend line are written (lines 97-108).
CalculateIndicators ==
    /\ pc = "indicators"
    /\ \/ /\ last' = df.row
          /\ is_bull' = IsBull(df.row)
          /\ column' = [column EXCEPT ![idx].indicators = TRUE,
                           ![idx].trend = IF IsBull(df.row) THEN "Bullish" ELSE "Bearish"]
          /\ pc' = "opportunity"
          /\ UNCHANGED <<config, idx, fxState, df, shares, stop_loss, err_msg,
                         terminal, aiCalls, series>>
       \/ SystemError([column[idx] EXCEPT !.indicators = TRUE])

\* The upside-room branch (lines 110-118)
OpportunityStep ==
    /\ pc = "opportunity"
    /\ column' = [column EXCEPT ![idx].category = Opportunity(last)]
    /\ pc' = "size"
    /\ UNCHANGED <<config, idx, fxState, locals, terminal, aiCalls, series>>

\* The position block and the no-entry block (lines 120-137)
PositionSize ==
    /\ pc = "size"
    /\ IF is_bull
       THEN IF SizingRaises(last, INITIAL_CAPITAL_JPY, RISK_TOLERANCE_PCT,
                            ATR_MULTIPLIER, usd_jpy)
            THEN SystemError(column[idx])
            ELSE /\ stop_loss' = StopLoss(last, ATR_MULTIPLIER)
                 /\ shares' = Shares(last, INITIAL_CAPITAL_JPY, RISK_TOLERANCE_PCT,
                                     ATR_MULTIPLIER, usd_jpy)
                 /\ column' = [column EXCEPT ![idx].position = "rec",
                                             ![idx].fx = usd_jpy]
                 /\ pc' = "gate"
                 /\ UNCHANGED <<config, idx, fxState, df, last, is_bull, err_msg,
                                terminal, aiCalls, series>>
       ELSE /\ column' = [column EXCEPT ![idx].position = "noentry"]
            /\ pc' = "gate"
            /\ UNCHANGED <<config, idx, fxState, locals, terminal, aiCalls, series>>

\* if client and is_bull (line 140); otherwise the iteration is over.
CommentaryGate ==
    /\ pc = "gate"
    /\ IF ShouldComment(client, is_bull)
       THEN /\ pc' = "sleep"
            /\ UNCHANGED <<config, idx, fxState, locals, column, terminal,
                           aiCalls, series>>
       ELSE /\ EndIteration("result")
            /\ UNCHANGED <<config, fxState, column, aiCalls, series>>

\* time.sleep(2) and the prompt (lines 142-150)
Backoff ==
    /\ pc = "sleep"
    /\ column' = [column EXCEPT ![idx].slept = TRUE]
    /\ pc' = "call"
    /\ UNCHANGED <<config, idx, fxState, locals, terminal, aiCalls, series>>

\* client.models.generate_content(...) (lines 152-157): either the text is
\* shown, or the call raises and str(e) carries some of the markers.
GenerateContent ==
    /\ pc = "call"
    /\ aiCalls' = [aiCalls EXCEPT ![idx] = @ + 1]
    /\ \/ /\ column' = [column EXCEPT ![idx].ai = "text"]
          /\ EndIteration("result")
          /\ UNCHANGED <<config, fxState, series>>
       \/ /\ \E err \in SUBSET ErrMarkers : err_msg' = err
          /\ pc' = "except"
          /\ UNCHANGED <<config, idx, fxState, df, last, is_bull, shares,
                         stop_loss, column, terminal, series>>

\* Faulty variant: no inner try/except, the commentary failure reaches the outer one.
CommentaryExcept_Propagate ==
    /\ pc = "except"
    /\ column' = [column EXCEPT ![idx].error = "system"]
    /\ EndIteration("error")
    /\ UNCHANGED <<config, fxState, aiCalls, series>>

\* except Exception as e: the three-way annotation (lines 158-166)
CommentaryExcept ==
    /\ pc = "except"
    /\ column' = [column EXCEPT ![idx].ai = ClassifyAiError(err_msg)]
    /\ EndIteration("result")
    /\ UNCHANGED <<config, fxState, aiCalls, series>>

RunStep ==
    \/ GetUsdJpyRate
    \/ Download
    \/ LengthGuard
    \/ CalculateIndicators
    \/ OpportunityStep
    \/ PositionSize
    \/ CommentaryGate
    \/ Backoff
    \/ GenerateContent
    \/ CommentaryExcept

Next == Interact \/ Click \/ RunStep

Spec == Init /\ [][Next]_vars

\* The script runs to completion once started: the run's steps are weakly
\* fair; pressing the button is not.
FairSpec == Spec /\ WF_vars(RunStep)

\* ------------------------------------------------------------------------
\* The classifier and the sizer on a wide range of inputs: the run stands
\* at the first ticker, just before calculate_indicators returns its row.
\* ------------------------------------------------------------------------
CalcFxResponses ==
    {[status |-> "raise", close |-> NoVal]}
        \cup {[status |-> "ok", close |-> r] : r \in CalcRates \ {FallbackRate}}

InitCalc ==
    /\ INITIAL_CAPITAL_JPY \in CalcCapitals
    /\ RISK_TOLERANCE_PCT \in CalcPcts
    /\ ATR_MULTIPLIER \in CalcMults
    /\ client = FALSE
    /\ pc = "indicators"
    /\ idx = 1
    /\ fxResponse \in CalcFxResponses
    /\ usd_jpy = get_usd_jpy_rate(fxResponse)
    /\ fxFetches = 1
    /\ df \in [len : {MinBars}, row : CalcRows]
    /\ last = NoRow
    /\ is_bull = FALSE
    /\ shares = 0
    /\ stop_loss = NoVal
    /\ err_msg = {}
    /\ column = [t \in Tickers |-> EmptyColumn]
    /\ terminal = [t \in Tickers |-> <<>>]
    /\ aiCalls = [t \in Tickers |-> 0]
    /\ closes = <<>>
    /\ rsiCol = <<>>

NextCalc == CalculateIndicators \/ OpportunityStep \/ PositionSize

SpecCalc == InitCalc /\ [][NextCalc]_vars

\* ------------------------------------------------------------------------
\* calculate_indicators on the Close column of a short frame
\* ------------------------------------------------------------------------
CloseSeries == UNION {[1..n -> SeriesPrices] : n \in RSIWindow..MaxBars}

InitRSI ==
    /\ INITIAL_CAPITAL_JPY \in RunCapitals
    /\ RISK_TOLERANCE_PCT = Num(5, 100)
    /\ ATR_MULTIPLIER = Num(2, 1)
    /\ client = FALSE
    /\ pc = "series"
    /\ idx = 0
    /\ usd_jpy = NoVal
    /\ fxResponse = NoResp
    /\ fxFetches = 0
    /\ df = NoFrame
    /\ last = NoRow
    /\ is_bull = FALSE
    /\ shares = 0
    /\ stop_loss = NoVal
    /\ err_msg = {}
    /\ column = [t \in Tickers |-> EmptyColumn]
    /\ terminal = [t \in Tickers |-> <<>>]
    /\ aiCalls = [t \in Tickers |-> 0]
    /\ closes \in CloseSeries
    /\ rsiCol = <<>>

\* df['RSI'] is filled in (lines 50-54)
ComputeRSI ==
    /\ pc = "series"
    /\ rsiCol' = RSIColumn(closes)
    /\ pc' = "rsi"
    /\ UNCHANGED <<config, idx, fxState, locals, column, terminal, aiCalls, closes>>

NextRSI == ComputeRSI

SpecRSI == InitRSI /\ [][NextRSI]_vars

\* ========================================================================
\* Properties
\* ========================================================================
\* The current ticker's position block has been written.
Sized == pc = "gate" /\ is_bull

\* shares * close * fx, and shares * risk_per_share, as exact rationals
Cost == FMul(Num(shares, 1), FMul(last.Close, usd_jpy))

Exposure ==
    FMul(Num(shares, 1), FMul(FMul(ATR_MULTIPLIER, last.ATR), usd_jpy))

Allowable == FMul(Num(INITIAL_CAPITAL_JPY, 1), RISK_TOLERANCE_PCT)

RiskIsPositive ==
    /\ IsNum(last.ATR)
    /\ ATR_MULTIPLIER.n * last.ATR.n * usd_jpy.n > 0

\* max_buy is the binding constraint: it is smaller than the risk quotient.
CapitalConstrained ==
    /\ RiskIsPositive
    /\ PyInt(MaxBuy(last, INITIAL_CAPITAL_JPY, usd_jpy))
         < PyInt(RawShares(last, INITIAL_CAPITAL_JPY, RISK_TOLERANCE_PCT,
                           ATR_MULTIPLIER, usd_jpy))

\* C1: for a Bullish ticker with positive capital, close and FX rate, the
\* share count is an integer, is not negative, and shares * close * fx does
\* not exceed the initial capital.
C1_SharesAffordable ==
    (Sized /\ INITIAL_CAPITAL_JPY > 0 /\ FGt(last.Close, Zero) /\ FGt(usd_jpy, Zero))
        => /\ shares \in Int
           /\ shares >= 0
           /\ FLe(Cost, Num(INITIAL_CAPITAL_JPY, 1))

\* C1 witness: a Bullish ticker with positive capital whose share count is
\* positive and was cut down to what the capital affords.
C1_Witness ==
    /\ Sized
    /\ INITIAL_CAPITAL_JPY > 0
    /\ shares > 0
    /\ CapitalConstrained
    /\ shares = PyInt(MaxBuy(last, INITIAL_CAPITAL_JPY, usd_jpy))

\* C7 as stated: for a Bullish ticker the risk exposure shares * risk_per_share
\* does not exceed allowable_risk unless max_buy is the binding constraint, and
\* the share count is 0 when risk_per_share is not > 0.
C7_ExposureWithinRisk_AnyCapital ==
    Sized
        => /\ (CapitalConstrained \/ ~RiskIsPositive \/ FLe(Exposure, Allowable))
           /\ (~RiskIsPositive => shares = 0)

\* C7 amended: the same, for a non-negative initial capital.
C7_ExposureWithinRisk ==
    (Sized /\ INITIAL_CAPITAL_JPY >= 0)
        => /\ (CapitalConstrained \/ ~RiskIsPositive \/ FLe(Exposure, Allowable))
           /\ (~RiskIsPositive => shares = 0)

\* C7 witness: a Bullish ticker, positive capital, the risk quotient is the
\* smaller bound and gives a positive share count.
C7_Witness ==
    /\ Sized
    /\ INITIAL_CAPITAL_JPY > 0
    /\ RiskIsPositive
    /\ ~CapitalConstrained
    /\ shares > 0
    /\ FLe(Exposure, Allowable)

\* The classifier's tests written on numerators and denominators.
CloseAboveSma(row) == row.Close.n * row.SMA_200.d > row.SMA_200.n * row.Close.d

CloseWithinOnePct(row) ==
    100 * row.Close.n * row.High_52W.d >= 99 * row.High_52W.n * row.Close.d

TenPctBelowHigh(row) ==
    100 * (row.High_52W.n * row.Close.d - row.Close.n * row.High_52W.d)
        >= 10 * row.Close.n * row.High_52W.d

\* C6: every (close, SMA_200, High_52W) gets exactly one trend label, Bullish
\* iff close > SMA_200, and exactly one category: AtHighs iff
\* close >= 0.99 * High_52W, else RoomAvailable iff the distance is >= 10%,
\* else NearResistance; close = High_52W gives distance 0 and AtHighs.
C6_ClassificationTotal ==
    (pc \in {"size", "gate"})
        => LET col == column[idx]
           IN  /\ col.trend \in {"Bullish", "Bearish"}
               /\ (col.trend = "Bullish") <=> CloseAboveSma(last)
               /\ col.category \in {"AtHighs", "RoomAvailable", "NearResistance"}
               /\ (col.category = "AtHighs") <=> CloseWithinOnePct(last)
               /\ (col.category = "RoomAvailable")
                     <=> (~CloseWithinOnePct(last) /\ TenPctBelowHigh(last))
               /\ (col.category = "NearResistance")
                     <=> (~CloseWithinOnePct(last) /\ ~TenPctBelowHigh(last))
               /\ (last.Close = last.High_52W)
                     => (DistToHighPct(last) = Zero /\ col.category = "AtHighs")

\* C6 witness: close equals the 52-week high and the ticker is classified.
C6_Witness ==
    /\ pc = "gate"
    /\ last.Close = last.High_52W
    /\ column[idx].category = "AtHighs"
    /\ column[idx].trend = "Bullish"

\* C2: a position recommendation (stop-loss and share count) is written for a
\* ticker iff its latest close is above SMA_200; otherwise the ticker gets the
\* no-entry block and neither a stop-loss nor a share count is computed.
C2_PositionIffBullish ==
    /\ \A t \in Tickers :
          /\ (column[t].position = "rec") => (column[t].trend = "Bullish")
          /\ (column[t].position = "noentry") => (column[t].trend = "Bearish")
          /\ (column[t].fx # NoVal) => (column[t].position = "rec")
          /\ (terminal[t] = <<"result">>)
                => /\ column[t].position \in {"rec", "noentry"}
                   /\ (column[t].position = "rec") <=> (column[t].trend = "Bullish")
    /\ (pc \in {"gate", "sleep", "call", "except"})
          => /\ (column[idx].position = "rec") <=> CloseAboveSma(last)
             /\ (column[idx].position = "noentry") <=> ~CloseAboveSma(last)
             /\ CloseAboveSma(last)
                   => /\ stop_loss # NoVal
                      /\ column[idx].fx = usd_jpy
             /\ ~CloseAboveSma(last)
                   => /\ stop_loss = NoVal
                      /\ shares = 0
                      /\ column[idx].fx = NoVal

\* C2 witness: one run in which the first ticker got the no-entry block and
\* the second a recommendation.
C2_Witness ==
    /\ column[1].position = "noentry"
    /\ column[2].position = "rec"
    /\ pc = "gate"
    /\ idx = 2

RunPcs == {"download", "guard", "indicators", "opportunity", "size", "gate",
           "sleep", "call", "except"}

Outcomes == {"result", "insufficient", "error"}

C3_Isolated ==
    /\ \A t \in Tickers :
          /\ Len(terminal[t]) <= 1
          /\ \A i \in 1..Len(terminal[t]) : terminal[t][i] \in Outcomes
    /\ (pc = "done") => \A t \in Tickers : Len(terminal[t]) = 1
    /\ (pc \in RunPcs)
          => /\ idx \in Tickers
             /\ \A t \in Tickers : Len(terminal[t]) = IF t < idx THEN 1 ELSE 0
    /\ pc \in RunPcs \cup {"idle", "fx", "done"}

\* C3: whatever tickers fail (download raises, too few bars, an exception in
\* the computation, a commentary failure), the tickers are processed in turn,
\* each reaches exactly one terminal outcome, and a started run terminates.
C3_EveryTickerTerminates ==
    /\ []C3_Isolated
    /\ (pc = "fx") ~> (pc = "done")

\* C3 witness: a finished run whose first ticker raised, whose second had too
\* few bars, and whose third got its result with a failed commentary call.
C3_Witness ==
    /\ pc = "done"
    /\ terminal[1] = <<"error">>
    /\ terminal[2] = <<"insufficient">>
    /\ terminal[3] = <<"result">>
    /\ column[3].ai = "other"

C4_Step ==
    (pc = "guard" /\ df.len < 250)
        => /\ terminal'[idx] = <<"insufficient">>
           /\ column'[idx] = [EmptyColumn EXCEPT !.error = "insufficient"]
           /\ \A t \in Tickers \ {idx} :
                 column'[t] = column[t] /\ terminal'[t] = terminal[t]
           /\ aiCalls' = aiCalls
           /\ idx' = idx + 1
           /\ pc' = IF idx = 3 THEN "done" ELSE "download"

C4_Skipped ==
    \A t \in Tickers :
        (column[t].error = "insufficient")
            => /\ column[t] = [EmptyColumn EXCEPT !.error = "insufficient"]
               /\ aiCalls[t] = 0
               /\ terminal[t] = <<"insufficient">>

\* C4: a fetched series of fewer than 250 bars (the empty one included) ends
\* the ticker with the insufficient-data report: calculate_indicators is not
\* invoked, no trend, category, recommendation or commentary call is made for
\* it, and the loop goes on with the next ticker.
C4_InsufficientData ==
    /\ [][C4_Step]_vars
    /\ []C4_Skipped

\* C4 witness: the first ticker was skipped for insufficient data and the
\* second went on to get its result.
C4_Witness ==
    /\ column[1].error = "insufficient"
    /\ terminal[2] = <<"result">>

AiFailures == {"rate-limited", "not-found", "other"}

C5_Step ==
    (pc = "except")
        => /\ column[idx].trend = "Bullish"
           /\ column[idx].category # "none"
           /\ column[idx].position = "rec"
           /\ column'[idx].ai
                 = IF "429" \in err_msg \/ "RESOURCE_EXHAUSTED" \in err_msg
                   THEN "rate-limited"
                   ELSE IF "404" \in err_msg THEN "not-found" ELSE "other"
           /\ column'[idx] = [column[idx] EXCEPT !.ai = column'[idx].ai]
           /\ column'[idx].error = "none"
           /\ terminal'[idx] = <<"result">>

\* What a column shows stays as it is until the script is run again.
C5_StaysEmitted ==
    (pc' \notin {"idle", "fx"})
        => \A t \in Tickers :
              /\ (column[t].trend # "none") => (column'[t].trend = column[t].trend)
              /\ (column[t].category # "none")
                    => (column'[t].category = column[t].category)
              /\ (column[t].position # "none")
                    => (column'[t].position = column[t].position)
              /\ (column[t].ai # "none") => (column'[t].ai = column[t].ai)

C5_Annotated ==
    \A t \in Tickers :
        (column[t].ai \in AiFailures)
            => /\ column[t].error = "none"
               /\ column[t].trend = "Bullish"
               /\ column[t].category # "none"
               /\ column[t].position = "rec"
               /\ terminal[t] = <<"result">>

\* C5: a failed commentary call leaves the trend, category and recommendation
\* of the ticker as written, adds exactly one annotation (rate-limited for
\* 429 / RESOURCE_EXHAUSTED, else not-found for 404, else other), and the
\* ticker ends with its result, not with a system error.
C5_CommentaryFailureInline ==
    /\ [][C5_Step /\ C5_StaysEmitted]_vars
    /\ []C5_Annotated

\* C5 witness: a finished run with one annotation of each kind.
C5_Witness ==
    /\ pc = "done"
    /\ column[1].ai = "rate-limited"
    /\ column[2].ai = "not-found"
    /\ column[3].ai = "other"

\* C9: the FX rate is fetched once, before any ticker is touched; a raising
\* or empty fetch gives 150.0 without any error report; every ticker's sizer
\* gets that one value, the provider's close or the fallback.
C9_OneRatePerRun ==
    /\ (pc \in {"idle", "fx"})
          => /\ fxFetches = 0
             /\ \A t \in Tickers : column[t] = EmptyColumn /\ terminal[t] = <<>>
    /\ (pc \in RunPcs \cup {"done"})
          => /\ fxFetches = 1
             /\ fxResponse.status \in {"raise", "empty", "ok"}
             /\ (fxResponse.status = "ok") => (usd_jpy = fxResponse.close)
             /\ (fxResponse.status \in {"raise", "empty"}) => (usd_jpy = Num(150, 1))
    /\ (pc = "download" /\ idx = 1)
          => \A t \in Tickers : column[t] = EmptyColumn /\ terminal[t] = <<>>
    /\ \A t \in Tickers : (column[t].fx # NoVal) => (column[t].fx = usd_jpy)
    /\ \A t, u \in Tickers :
          (column[t].fx # NoVal /\ column[u].fx # NoVal) => (column[t].fx = column[u].fx)

\* C9 witness: the FX fetch came back empty and two tickers were sized with
\* the fallback rate.
C9_Witness ==
    /\ fxResponse.status = "empty"
    /\ column[1].fx = Num(150, 1)
    /\ column[3].fx = Num(150, 1)

\* C10: the commentary provider is called at most once per ticker, only with
\* a client and a Bullish trend, and only after the ticker's classification
\* and recommendation are written and the backoff has been waited; without a
\* client no call is made, and classification and sizing are what the inputs
\* alone determine.
C10_CommentaryGating ==
    /\ \A t \in Tickers :
          /\ aiCalls[t] <= 1
          /\ (aiCalls[t] = 1)
                => /\ client
                   /\ column[t].trend = "Bullish"
                   /\ column[t].category # "none"
                   /\ column[t].position = "rec"
                   /\ column[t].slept
          /\ (column[t].ai # "none") => (aiCalls[t] = 1)
          /\ (~client) => (aiCalls[t] = 0 /\ column[t].ai = "none" /\ ~column[t].slept)
    /\ (pc \in {"gate", "sleep", "call", "except"})
          => /\ column[idx].trend = IF CloseAboveSma(last) THEN "Bullish" ELSE "Bearish"
             /\ column[idx].category
                   = IF CloseWithinOnePct(last) THEN "AtHighs"
                     ELSE IF TenPctBelowHigh(last) THEN "RoomAvailable"
                     ELSE "NearResistance"
             /\ column[idx].position = IF CloseAboveSma(last) THEN "rec" ELSE "noentry"
             /\ CloseAboveSma(last)
                   => shares = Shares(last, INITIAL_CAPITAL_JPY, RISK_TOLERANCE_PCT,
                                      ATR_MULTIPLIER, usd_jpy)

\* C10 witness: with a client, the first ticker (Bullish) was commented once
\* and the second (Bearish) not at all.
C10_Witness ==
    /\ client
    /\ pc = "done"
    /\ aiCalls[1] = 1
    /\ column[2].trend = "Bearish"
    /\ aiCalls[2] = 0

\* C8: at every bar with a full 14-bar window RSI is a number in [0, 100],
\* and it is 100 when avg_loss = 0 and avg_gain > 0.
C8_RSIWithinRange ==
    (pc = "rsi")
        => \A i \in DOMAIN closes :
              (i >= RSIWindow)
                  => /\ IsNum(rsiCol[i])
                     /\ FGe(rsiCol[i], Zero)
                     /\ FLe(rsiCol[i], Num(100, 1))
                     /\ (AvgLoss(closes, i) = Zero /\ FGt(AvgGain(closes, i), Zero))
                           => (rsiCol[i] = Num(100, 1))

====
